---------------------------- MODULE Spec2Model ----------------------------
(***************************************************************************)
(* Lifecycle layer of dapi-client: a facade that wraps one client handle   *)
(* and a dictionary of commands and adds close / isHealthy / status.       *)
(*                                                                         *)
(* The repository holds three coexisting implementations of the mixin:     *)
(*   "closure"  src/src/DapiClientMixin.ts : `_status` is a variable of    *)
(*              the DapiClientMixin call, read by the three synthesized    *)
(*              functions; close/isHealthy are plain functions that        *)
(*              return a promise only when the user function does.         *)
(*   "bundle"   src/unnamed/part_002 : the status is the `status` key of   *)
(*              the dependency bundle, written with updateDependencies;    *)
(*              close/isHealthy are async functions.                       *)
(*   "class"    src/unnamed/part_001 : `_status` is a private field of     *)
(*              the instance; close/isHealthy are async methods; the       *)
(*              class adds getClient/setClient and its own                 *)
(*              setDependencies.                                           *)
(*                                                                         *)
(* Scheduling is that of one JavaScript thread: every action below is one  *)
(* run-to-completion piece of code (a call by the owner up to the point    *)
(* where it returns, or the continuation of an await once the awaited      *)
(* promise has settled).                                                   *)
(***************************************************************************)
EXTENDS Naturals, Sequences, FiniteSets

\* ------------------------------------------------------------------ values

\* enum ClientStatus
OPEN == "open"
CLOSING == "closing"
CLOSED == "closed"
ClientStatus == {OPEN, CLOSING, CLOSED}

\* JavaScript's undefined: a key that is missing from an object reads as this.
Undef == "undefined"
\* A key that a Partial<DEPENDENCIES> argument does not mention.
NoKey == "nokey"
\* What the class variant's constructor stores under the keys close, isHealthy
\* and status of the bundle: the instance's bound methods.
Bound == "bound"

Variants == {"closure", "bundle", "class"}
\* definition.close / definition.isHealthy: absent, a function that completes
\* synchronously, or a function that returns a promise.
FnKinds == {"none", "sync", "async"}

\* The client and the `opts` payload of the definition ("c1", "bar") and the
\* ones callers replace them with ("c2", "baz"), as in the tests.
Clients == {"c1", "c2"}
NewOpts == {"baz"}
Instances == {1, 2}
\* Arguments a caller passes to a command after the bundle, as in the tests.
CommandArgs == {<<>>, <<"a1", "a2">>}
\* The options object a caller passes to close(): a delay or none, and a key
\* that close does not know.
CloseOptions == {[delay |-> d, other |-> "x"] : d \in {Undef, "1ms"}}

\* ------------------------------------------------------------------ bounds

\* Invocations of the user close function that one instance may see.
MaxCloseCalls == 2
\* User health checks of one instance that may be in flight at once.
MaxInflight == 1

\* ------------------------------------------------------------------- state

VARIABLES
    variant,      \* the implementation the class was built by
    closeFn,      \* kind of definition.close
    healthFn,     \* kind of definition.isHealthy
    definition,   \* the definition DapiClientMixin was called with
    live,         \* the instances constructed so far from the class
    closureStatus,\* closure variant: `let _status` of the DapiClientMixin call
    fieldStatus,  \* class variant: this._status, per instance
    deps,         \* per instance: the facade's current dependency bundle
    closeCalls,   \* per instance: times the user close function was invoked
    closeBegun,   \* per instance: some close() found OPEN and went on
    stack,        \* activations of the user close function, innermost first
    closeWait,    \* per instance: close() calls suspended on their await / then
    healthWait,   \* per instance: isHealthy() calls waiting on the user's promise
    reader,       \* a caller's reference to a bundle it got from getDependencies()
    last          \* the step just taken: operation, instance, result

vars == <<variant, closeFn, healthFn, definition, live, closureStatus,
          fieldStatus, deps, closeCalls, closeBegun, stack, closeWait, healthWait,
          reader, last>>

config == <<variant, closeFn, healthFn, definition>>

\* -------------------------------------------------------------- definitions

\* JavaScript values, as far as validation tells them apart: undefined, null,
\* 0, '', false, a non-empty string, a plain object, a function.
Truthy(v) == v \in {"string", "object", "function"}
\* typeof v === 'function'
Callable(v) == v = "function"

\* definition.close / definition.isHealthy as a caller may write them.
OverrideValues == {"undefined", "null", "zero", "empty", "false", "string", "function"}

\* definition.dependencies: absent, or an object with these keys.
Dependencies(c, cl, h, s) ==
    [present |-> TRUE, client |-> c, close |-> cl, isHealthy |-> h, status |-> s]
NoDependencies ==
    [present |-> FALSE, client |-> "undefined", close |-> "undefined",
     isHealthy |-> "undefined", status |-> "undefined"]
DependenciesValues ==
    { Dependencies(c, cl, h, s) :
        c \in {"undefined", "null", "object"}, cl \in {"undefined", "null", "function"},
        h \in {"undefined", "function"}, s \in {"undefined", "empty", "string"} }
    \cup {NoDependencies}

\* definition.fns: undefined, null, a string, a function, a dictionary of
\* functions ("dict"), a dictionary with a value that is no function
\* ({foo: null}, "dictWithNull").
FnsValues == {"undefined", "null", "string", "function", "dict", "dictWithNull"}

\* A dictionary of functions that has entries named close, isHealthy and status
\* next to its commands, as in the usage example of the README
\* (fns: {close: ({client, logger}) => client.quit()}).
FnsNamed == "dictNamed"
LifecycleNames == {"close", "isHealthy", "status"}

\* definition.type
TypeValues == {"undefined", "string"}

Definitions ==
    [dependencies : DependenciesValues, fns : FnsValues, type : TypeValues,
     close : OverrideValues, isHealthy : OverrideValues]

\* The definition of the tests, with the close and isHealthy functions the
\* kinds say.
DefinitionOf(c, h) ==
    [dependencies |-> Dependencies("object", "undefined", "undefined", "undefined"),
     fns |-> "dict", type |-> "string",
     close |-> IF c = "none" THEN "undefined" ELSE "function",
     isHealthy |-> IF h = "none" THEN "undefined" ELSE "function"]

\* Object.values(fns).some((fn) => typeof fn !== 'function')
FnsHasNonFunction(f) == f = "dictWithNull"

\* typeof fns !== 'object' || fns === null
FnsNotObject(f) == f \notin {"dict", "dictWithNull", "dictNamed"}

\* validateDefinition of src/src/DapiClientMixin.ts: the message of the
\* TypeError it throws, or "ok".
ValidateDefinitionClosure(d) ==
    IF Truthy(d.close) /\ ~Callable(d.close) THEN "close must be a function"
    ELSE IF Truthy(d.isHealthy) /\ ~Callable(d.isHealthy)
    THEN "isHealthy must be a function"
    ELSE IF ~d.dependencies.present THEN "Definition must have dependencies"
    ELSE IF Truthy(d.dependencies.close) \/ Truthy(d.dependencies.isHealthy)
    THEN "Dependencies cannot have a close or isHealthy properties"
    ELSE IF ~Truthy(d.dependencies.client) THEN "Dependencies must have a client"
    ELSE IF FnsNotObject(d.fns)
    THEN "Definition must have a dictionary (fns) of Dapi functions"
    ELSE IF FnsHasNonFunction(d.fns)
    THEN "fns dictionary must only contain values of type fn"
    ELSE "ok"

\* validateDefinition of part_002; reading `dependencies.close` of an absent
\* bundle throws a TypeError of the engine.
ValidateDefinitionBundle(d) ==
    IF Truthy(d.close) /\ ~Callable(d.close) THEN "close must be a function"
    ELSE IF Truthy(d.isHealthy) /\ ~Callable(d.isHealthy)
    THEN "isHealthy must be a function"
    ELSE IF ~d.dependencies.present THEN "Cannot read properties of undefined"
    ELSE IF \/ Truthy(d.dependencies.close)
            \/ Truthy(d.dependencies.isHealthy)
            \/ Truthy(d.dependencies.status)
    THEN "Dependencies cannot have a close or isHealthy or status property"
    ELSE "ok"

\* The checks of DapiMixin, the facade all three variants build on: the
\* definition must have dependencies, a dictionary of functions and a type.
\* It asks for no client and refuses no key of the bundle.
ValidateDefinitionFacade(d) ==
    IF FnsNotObject(d.fns)
    THEN "Definition must have a dictionary (fns) of Dapi functions"
    ELSE IF FnsHasNonFunction(d.fns)
    THEN "fns dictionary must only contain values of type fn"
    ELSE IF d.type = "undefined" THEN "Definition must have a type"
    ELSE IF ~d.dependencies.present THEN "Definition must have dependencies"
    ELSE "ok"

\* {...fns, close, isHealthy, status}: spreading undefined, null or a function
\* adds no key, spreading a string adds its characters, and the three
\* lifecycle functions follow.
SpreadFns(f) ==
    CASE f \in {"undefined", "null", "function", "dict", "dictNamed"} -> "dict"
      [] f \in {"string", "dictWithNull"} -> "dictWithNull"

\* The fns dictionary DapiMixin is given: the closure and the bundle variant
\* spread definition.fns into a new object, the class variant passes the
\* definition as it is.
FacadeFns(v, f) == IF v = "class" THEN f ELSE SpreadFns(f)

\* The definition DapiMixin is given.
FacadeDefinition(v, d) == [d EXCEPT !.fns = FacadeFns(v, d.fns)]

\* DapiClientMixin(definition, SuperClass): "class" when it returns the mixed
\* class, else the message of the error thrown.
MixinOutcome(v, d) ==
    LET own == CASE v = "closure" -> ValidateDefinitionClosure(d)
                 [] v = "bundle"  -> ValidateDefinitionBundle(d)
                 [] v = "class"   -> "ok"
        facade == ValidateDefinitionFacade(FacadeDefinition(v, d))
    IN IF own # "ok" THEN own
       ELSE IF facade # "ok" THEN facade
       ELSE "class"

\* new Class(): "instance", or the message of the error the constructor throws
\* (part_001 tests the client there).
ConstructorOutcome(v, d) ==
    IF v = "class" /\ ~Truthy(d.dependencies.client)
    THEN "Dependencies must have a client"
    ELSE "instance"

\* ----------------------------------------------------------------- bundles

Bundle(c, o, s, f) == [client |-> c, opts |-> o, status |-> s, fns |-> f]

\* definition.dependencies of the tests: {client, opts}
DefinitionDependencies == Bundle("c1", "bar", Undef, Undef)

\* Bundles a caller may hand to setDependencies; Undef is `undefined`.
InputBundles ==
    { Bundle(c, o, s, Undef) :
        c \in Clients \cup {Undef}, o \in NewOpts, s \in ClientStatus \cup {Undef} }

\* Partial bundles a caller may hand to updateDependencies.
InputPartials ==
    { Bundle(c, o, s, NoKey) :
        c \in Clients \cup {NoKey}, o \in NewOpts \cup {NoKey},
        s \in ClientStatus \cup {NoKey} }

\* {...bundle, ...partial}
Merge(bundle, partial) ==
    [k \in DOMAIN bundle |-> IF partial[k] = NoKey THEN bundle[k] ELSE partial[k]]

OnlyStatus(s) == Bundle(NoKey, NoKey, s, NoKey)

\* The bundle as it would start if part_002 did not seed the status key.
InitialBundleUnseeded(v) ==
    IF v = "class" THEN [DefinitionDependencies EXCEPT !.fns = Bound]
    ELSE DefinitionDependencies

\* The bundle a new instance starts with.
InitialBundle(v) ==
    CASE v = "closure" -> DefinitionDependencies
      [] v = "bundle"  -> Merge(DefinitionDependencies, OnlyStatus(OPEN))
      [] v = "class"   -> [DefinitionDependencies EXCEPT !.fns = Bound]

\* ------------------------------------------------- references to a bundle

\* A bundle is a JavaScript object and getDependencies() returns the object the
\* facade holds, not a copy. A caller that keeps the result holds a reference:
\*   inst  : the instance it asked (0: it holds none),
\*   taken : what the object held when the caller got it,
\*   now   : what the object holds now,
\*   same  : the facade of `inst` still holds this very object.
Reference(i, taken, now, same) ==
    [inst |-> i, taken |-> taken, now |-> now, same |-> same]

NoReference == Reference(0, DefinitionDependencies, DefinitionDependencies, FALSE)

\* The facade of instance i takes a new object for its bundle: the object the
\* caller holds stays as it is.
Replaced(r, i) == IF r.inst = i THEN [r EXCEPT !.same = FALSE] ELSE r

\* The bundle object of instance i is written in place and now holds b: a
\* caller holding that object sees b.
WrittenInPlace(r, i, b) == IF r.inst = i /\ r.same THEN [r EXCEPT !.now = b] ELSE r

\* ------------------------------------------------------------------ status

\* status(): what the facade's status() returns for instance i.
StatusOf(i) ==
    CASE variant = "closure" -> closureStatus
      [] variant = "bundle"  -> deps[i].status
      [] variant = "class"   -> fieldStatus[i]

\* close as it would be with a guard that tests for CLOSED only.
CloseReturnsEarlyOnlyClosed(st) == st = CLOSED

\* close as it would be with a guard that tests for CLOSING only.
CloseReturnsEarlyOnlyClosing(st) == st = CLOSING

\* `if (_status !== ClientStatus.OPEN) return;` of close
CloseReturnsEarly(st) == st # OPEN

\* isHealthy as it would be with a guard that tests for CLOSED only.
HealthReturnsFalseOnlyClosed(st) == st = CLOSED

\* isHealthy as it would be with a guard that tests for CLOSING only.
HealthReturnsFalseOnlyClosing(st) == st = CLOSING

\* isHealthy as it would be if it gave up whatever the status.
HealthReturnsFalseAlways(st) == TRUE

\* isHealthy as it would be without its guard.
HealthReturnsFalseNever(st) == FALSE

\* `if (_status !== ClientStatus.OPEN) return false;` of isHealthy
HealthReturnsFalse(st) == st # OPEN

\* close as it would be if it called the user close function without
\* leaving OPEN first.
StatusStaysOpen == OPEN

\* close as it would be if it reported CLOSED before the user close function
\* has run.
StatusClosedAtOnce == CLOSED

\* close as it would be if it assigned CLOSING only after the user close
\* function has been called.
StatusOpenDuringUserClose == OPEN

\* The status close assigns before it calls the user close function.
StatusWhileClosing == CLOSING

\* close as it would be if it never advanced past CLOSING.
StatusStaysClosing == CLOSING

\* The status close assigns once the user close function has completed.
StatusWhenClosed == CLOSED

\* Assignment of the status of instance i, wherever the variant keeps it.
SetStatus(i, st) ==
    /\ closureStatus' = IF variant = "closure" THEN st ELSE closureStatus
    /\ fieldStatus' = IF variant = "class"
                      THEN [fieldStatus EXCEPT ![i] = st] ELSE fieldStatus
    /\ deps' = IF variant = "bundle"
               THEN [deps EXCEPT ![i] = Merge(deps[i], OnlyStatus(st))] ELSE deps
    /\ reader' = IF variant = "bundle" THEN Replaced(reader, i) ELSE reader

KeepStatus == UNCHANGED <<closureStatus, fieldStatus, deps, reader>>

\* close and isHealthy are `async` in the bundle and class variants: a
\* synchronous user function is awaited, so the code after the await runs in a
\* later microtask.
AsyncWrapper == variant \in {"bundle", "class"}

Event(op, i, was, ret, user) ==
    [op |-> op, inst |-> i, was |-> was, ret |-> ret, user |-> user]

\* A step that called a user-supplied function: the bundle and the further
\* arguments the function was given, and what it answered.
CallEvent(op, i, was, ret, user, bundle, args, answer) ==
    [op |-> op, inst |-> i, was |-> was, ret |-> ret, user |-> user,
     bundle |-> bundle, args |-> args, answer |-> answer]

\* `{delay}`: the options the user close function is given.
UserCloseOptions(o) == [delay |-> o.delay]

\* close() calls the user close function: what the caller passed and what the
\* function is given.
CloseCallEvent(i, was, bundle, o) ==
    [op |-> "closeFn", inst |-> i, was |-> was, ret |-> "running", user |-> TRUE,
     bundle |-> bundle, args |-> UserCloseOptions(o), answer |-> "running",
     options |-> o]

\* The first argument that close and isHealthy hand to the user function as it
\* would be if the bundle were captured when the instance was built.
ArgumentAtConstruction(i) == InitialBundle(variant)

\* The first argument that close and isHealthy hand to the user function: the
\* `deps` they were called with (closure and bundle variants), or
\* this.getDependencies() (class variant).
ArgumentOfLifecycle(i) == deps[i]

\* The mixin as it would be if the entries of definition.fns came last in the
\* dictionary it builds: an entry of the user would replace the synthesized
\* function of the same name.
UserEntryWins(f, n) ==
    IF f = FnsNamed /\ n \in LifecycleNames THEN "user" ELSE "synthesized"

\* fns: {...definition.fns, close, isHealthy, status}: the synthesized
\* functions are written after the spread, so under the names close, isHealthy
\* and status the dictionary handed to DapiMixin holds the synthesized
\* function whatever definition.fns holds under them.
FacadeMethod(f, n) == "synthesized"

\* A call of the facade method n that runs the entry of definition.fns of that
\* name: a command like any other, given the current bundle.
UserEntry(n, i) ==
    /\ UNCHANGED <<config, live, closeCalls, closeBegun, stack, closeWait, healthWait>>
    /\ UNCHANGED <<closureStatus, fieldStatus, deps, reader>>
    /\ last' = [op |-> "userEntry", inst |-> i, was |-> StatusOf(i),
                ret |-> "result", user |-> TRUE, name |-> n]

\* -------------------------------------------------------------------- Init

Init ==
    /\ variant \in Variants
    /\ closeFn \in FnKinds
    /\ healthFn \in FnKinds
    /\ definition = DefinitionOf(closeFn, healthFn)
    /\ live = {1}
    /\ closureStatus = OPEN
    /\ fieldStatus = [i \in Instances |-> OPEN]
    /\ deps = [i \in Instances |-> InitialBundle(variant)]
    /\ closeCalls = [i \in Instances |-> 0]
    /\ closeBegun = [i \in Instances |-> FALSE]
    /\ stack = <<>>
    /\ closeWait = [i \in Instances |-> <<>>]
    /\ healthWait = [i \in Instances |-> <<>>]
    /\ reader = NoReference
    /\ last = Event("new", 1, OPEN, "instance", FALSE)


\* ------------------------------------------------------------------- close

\* An activation of the user close function on the call stack: the instance
\* whose close() called it and the status that close() found.
Frame(i, was) == [inst |-> i, was |-> was]

\* A suspended close(): what it waits for, and the status it found when called.
\*   "micro": the await of a value that is already there (a synchronous user
\*            function under an async wrapper); it resumes, it cannot fail.
\*   "user" : the promise the user close function returned.
Waiting(kind, was) == [kind |-> kind, was |-> was]

RemoveAt(s, k) == [j \in 1..(Len(s) - 1) |-> IF j < k THEN s[j] ELSE s[j + 1]]

\* No user code is on the call stack: the event loop may run a continuation.
Idle == stack = <<>>

\* close(options) called on instance i: up to the point where it returns, or
\* up to the point where it calls the user close function.
Close(i) ==
    /\ i \in live
    /\ IF FacadeMethod(definition.fns, "close") = "user"
       THEN UserEntry("close", i)
       ELSE /\ UNCHANGED <<config, live, healthWait, closeWait>>
            /\ LET st == StatusOf(i) IN
               IF CloseReturnsEarly(st)
               THEN /\ KeepStatus
                    /\ UNCHANGED <<closeCalls, closeBegun, stack>>
                    /\ last' = Event("close", i, st, "done", FALSE)
               ELSE /\ closeBegun' = [closeBegun EXCEPT ![i] = TRUE]
                    /\ IF closeFn = "none"
                       THEN /\ SetStatus(i, StatusWhenClosed)
                            /\ UNCHANGED <<closeCalls, stack>>
                            /\ last' = Event("close", i, st, "done", FALSE)
                       ELSE /\ closeCalls[i] < MaxCloseCalls
                            /\ closeCalls' = [closeCalls EXCEPT ![i] = @ + 1]
                            /\ SetStatus(i, StatusWhileClosing)
                            /\ stack' = <<Frame(i, st)>> \o stack
                            /\ \E o \in CloseOptions :
                                 last' = CloseCallEvent(i, st, ArgumentOfLifecycle(i), o)

\* The user close function on top of the stack returns a value that is no
\* promise. Without the async wrapper close() sets the status and returns;
\* with it, close() awaits the value and goes on in a later microtask.
UserCloseReturns ==
    /\ ~Idle
    /\ closeFn = "sync"
    /\ UNCHANGED <<config, live, healthWait, closeCalls, closeBegun>>
    /\ stack' = Tail(stack)
    /\ LET f == Head(stack) IN
       IF AsyncWrapper
       THEN /\ KeepStatus
            /\ closeWait' = [closeWait EXCEPT
                               ![f.inst] = Append(@, Waiting("micro", f.was))]
            /\ last' = Event("close", f.inst, f.was, "pending", TRUE)
       ELSE /\ SetStatus(f.inst, StatusWhenClosed)
            /\ UNCHANGED closeWait
            /\ last' = Event("close", f.inst, f.was, "done", TRUE)

\* The user close function on top of the stack throws: close() throws, or,
\* with the async wrapper, returns a rejected promise.
UserCloseThrows ==
    /\ ~Idle
    /\ closeFn = "sync"
    /\ UNCHANGED <<config, live, healthWait, closeCalls, closeBegun, closeWait>>
    /\ KeepStatus
    /\ stack' = Tail(stack)
    /\ last' = Event("close", Head(stack).inst, Head(stack).was, "failed", TRUE)

\* The user close function on top of the stack returns a promise: close()
\* returns one that settles after it.
UserCloseReturnsPromise ==
    /\ ~Idle
    /\ closeFn = "async"
    /\ UNCHANGED <<config, live, healthWait, closeCalls, closeBegun>>
    /\ KeepStatus
    /\ stack' = Tail(stack)
    /\ LET f == Head(stack) IN
       /\ closeWait' = [closeWait EXCEPT
                          ![f.inst] = Append(@, Waiting("user", f.was))]
       /\ last' = Event("close", f.inst, f.was, "pending", TRUE)

\* The awaited value arrives and the suspended close() runs to its end.
CloseResumes(i) ==
    /\ i \in live
    /\ Idle
    /\ UNCHANGED <<config, live, healthWait, closeCalls, closeBegun, stack>>
    /\ \E k \in 1..Len(closeWait[i]) :
         /\ closeWait' = [closeWait EXCEPT ![i] = RemoveAt(@, k)]
         /\ SetStatus(i, StatusWhenClosed)
         /\ last' = Event("closeSettled", i, closeWait[i][k].was, "done", FALSE)

\* The user's promise rejects: the rejection is the result of close().
CloseRejects(i) ==
    /\ i \in live
    /\ Idle
    /\ UNCHANGED <<config, live, healthWait, closeCalls, closeBegun, stack>>
    /\ \E k \in 1..Len(closeWait[i]) :
         /\ closeWait[i][k].kind = "user"
         /\ closeWait' = [closeWait EXCEPT ![i] = RemoveAt(@, k)]
         /\ KeepStatus
         /\ last' = Event("closeSettled", i, closeWait[i][k].was, "failed", FALSE)

\* --------------------------------------------------------------- isHealthy

\* isHealthy() called on instance i. A result that is known when the call
\* returns is recorded with the call, also where the async wrapper hands it
\* over as an already settled promise.
IsHealthy(i) ==
    /\ i \in live
    /\ IF FacadeMethod(definition.fns, "isHealthy") = "user"
       THEN UserEntry("isHealthy", i)
       ELSE /\ UNCHANGED <<config, live, closeCalls, closeBegun, stack, closeWait>>
            /\ KeepStatus
            /\ LET st == StatusOf(i) IN
               IF HealthReturnsFalse(st)
               THEN /\ UNCHANGED healthWait
                    /\ last' = Event("isHealthy", i, st, "false", FALSE)
               ELSE IF healthFn = "none"
               THEN /\ UNCHANGED healthWait
                    /\ last' = Event("isHealthy", i, st, "true", FALSE)
               ELSE \/ /\ healthFn = "sync"
                       /\ UNCHANGED healthWait
                       /\ \E b \in {"true", "false"} :
                            last' = CallEvent("isHealthy", i, st, b, TRUE,
                                              ArgumentOfLifecycle(i), <<>>, b)
                    \/ /\ healthFn = "async"
                       /\ Len(healthWait[i]) < MaxInflight
                       /\ healthWait' = [healthWait EXCEPT ![i] = Append(@, [was |-> st])]
                       /\ last' = CallEvent("isHealthy", i, st, "pending", TRUE,
                                            ArgumentOfLifecycle(i), <<>>, "pending")

\* The user's health promise settles and isHealthy()'s caller gets the value.
HealthSettles(i) ==
    /\ i \in live
    /\ Idle
    /\ UNCHANGED <<config, live, closeCalls, closeBegun, stack, closeWait>>
    /\ KeepStatus
    /\ \E k \in 1..Len(healthWait[i]) :
         /\ healthWait' = [healthWait EXCEPT ![i] = RemoveAt(@, k)]
         /\ \E b \in {"true", "false"} :
              last' = Event("healthSettled", i, healthWait[i][k].was, b, FALSE)

\* ------------------------------------------------------ status and commands

\* status() called on instance i.
Status(i) ==
    /\ i \in live
    /\ IF FacadeMethod(definition.fns, "status") = "user"
       THEN UserEntry("status", i)
       ELSE /\ UNCHANGED <<config, live, closeCalls, closeBegun, stack, closeWait, healthWait>>
            /\ KeepStatus
            /\ last' = Event("status", i, StatusOf(i), StatusOf(i), FALSE)

\* The commands as they would be if the mixin refused them once the client
\* is closing.
CommandBlockedOnceClosing(st) == st # OPEN

\* `fns: {...definition.fns, close, isHealthy, status}`: the commands are
\* handed to the facade as they are, with no test of the status before them.
CommandBlocked(st) == FALSE

\* The first argument of a command: the facade's current bundle.
CommandArgument(i) == deps[i]

\* A user command of definition.fns called on instance i with arguments a.
Command(i) ==
    /\ i \in live
    /\ UNCHANGED <<config, live, closeCalls, closeBegun, stack, closeWait, healthWait>>
    /\ KeepStatus
    /\ LET st == StatusOf(i) IN
       IF CommandBlocked(st)
       THEN last' = Event("command", i, st, "rejected", FALSE)
       ELSE \E a \in CommandArgs :
              last' = CallEvent("command", i, st, "result", TRUE,
                                CommandArgument(i), a, "result")

\* -------------------------------------------------------- dependency store

\* What a caller may pass to setDependencies: a bundle, or no value at all
\* (`undefined`, for which `value` is not read).
SetDependenciesArgs ==
    { [defined |-> TRUE, value |-> b] : b \in InputBundles }
    \cup { [defined |-> FALSE, value |-> Bundle(Undef, Undef, Undef, Undef)] }

\* setDependencies(newDeps) throws for this argument: `!newDeps` in the facade
\* the mixin extends, and `!newDeps.client` as well in the class variant.
SetDependenciesThrows(a) ==
    IF variant = "class"
    THEN ~a.defined \/ a.value.client = Undef
    ELSE ~a.defined

\* A call of the dependency store: the argument the caller passed and whether
\* the call returned ("done") or threw.
StoreEvent(op, i, was, ret, arg) ==
    [op |-> op, inst |-> i, was |-> was, ret |-> ret, user |-> FALSE, arg |-> arg]

\* setDependencies(newDeps) with an object of the caller's own. In the class
\* variant `dependencies === newDeps` is false for such an object, and
\* super.setDependencies(newDeps) follows.
SetDependencies(i) ==
    /\ i \in live
    /\ UNCHANGED <<config, live, closeCalls, closeBegun, stack, closeWait, healthWait>>
    /\ UNCHANGED <<closureStatus, fieldStatus>>
    /\ \E a \in SetDependenciesArgs :
         IF SetDependenciesThrows(a)
         THEN /\ UNCHANGED <<deps, reader>>
              /\ last' = StoreEvent("setDependencies", i, StatusOf(i), "TypeError", a)
         ELSE /\ deps' = [deps EXCEPT ![i] = a.value]
              /\ reader' = Replaced(reader, i)
              /\ last' = StoreEvent("setDependencies", i, StatusOf(i), "done", a)

UpdateDependencies(i) ==
    /\ i \in live
    /\ UNCHANGED <<config, live, closeCalls, closeBegun, stack, closeWait, healthWait>>
    /\ UNCHANGED <<closureStatus, fieldStatus>>
    /\ \E p \in InputPartials :
         /\ deps' = [deps EXCEPT ![i] = Merge(@, p)]
         /\ reader' = Replaced(reader, i)
         /\ last' = StoreEvent("updateDependencies", i, StatusOf(i), "done", p)

\* setClient as it would be if it built a new bundle with the new client alone.
AssignClientAlone(bundle, c) == Bundle(c, Undef, Undef, Undef)

\* `dependencies.client = newClient`: the bundle after the assignment.
AssignClient(bundle, c) == [bundle EXCEPT !.client = c]

\* setClient(newClient) of the class variant: it throws for a falsy client,
\* returns at once for the client the bundle has, and else assigns the client
\* key of the object getDependencies() returns.
SetClient(i) ==
    /\ i \in live
    /\ variant = "class"
    /\ UNCHANGED <<config, live, closeCalls, closeBegun, stack, closeWait, healthWait>>
    /\ UNCHANGED <<closureStatus, fieldStatus>>
    /\ \E c \in Clients \cup {Undef} :
         IF c = Undef
         THEN /\ UNCHANGED <<deps, reader>>
              /\ last' = StoreEvent("setClient", i, StatusOf(i), "TypeError", c)
         ELSE IF deps[i].client = c
         THEN /\ UNCHANGED <<deps, reader>>
              /\ last' = StoreEvent("setClient", i, StatusOf(i), "done", c)
         ELSE /\ deps' = [deps EXCEPT ![i] = AssignClient(@, c)]
              /\ reader' = WrittenInPlace(reader, i, AssignClient(deps[i], c))
              /\ last' = StoreEvent("setClient", i, StatusOf(i), "done", c)

\* getClient as it would be if it kept the client the instance was built with.
ClientAtConstruction(bundle) == DefinitionDependencies.client

\* this.getDependencies()?.client
ClientOf(bundle) == bundle.client

\* getClient() of the class variant.
GetClient(i) ==
    /\ i \in live
    /\ variant = "class"
    /\ UNCHANGED <<config, live, closeCalls, closeBegun, stack, closeWait, healthWait>>
    /\ KeepStatus
    /\ last' = Event("getClient", i, StatusOf(i), ClientOf(deps[i]), FALSE)

\* getDependencies(): the caller keeps the object it is given.
GetDependencies(i) ==
    /\ i \in live
    /\ UNCHANGED <<config, live, closeCalls, closeBegun, stack, closeWait, healthWait>>
    /\ UNCHANGED <<closureStatus, fieldStatus, deps>>
    /\ reader' = Reference(i, deps[i], deps[i], TRUE)
    /\ last' = Event("getDependencies", i, StatusOf(i), "bundle", FALSE)

\* setDependencies(held): the caller passes the very object it got from
\* getDependencies() of this instance. The class variant returns at once when
\* its bundle is that object (`dependencies === newDeps`); else the object
\* becomes the bundle.
SetDependenciesHeld(i) ==
    /\ i \in live
    /\ reader.inst = i
    /\ UNCHANGED <<config, live, closeCalls, closeBegun, stack, closeWait, healthWait>>
    /\ UNCHANGED <<closureStatus, fieldStatus>>
    /\ LET a == [defined |-> TRUE, value |-> reader.now] IN
       IF SetDependenciesThrows(a)
       THEN /\ UNCHANGED <<deps, reader>>
            /\ last' = StoreEvent("setDependencies", i, StatusOf(i), "TypeError", a)
       ELSE /\ deps' = [deps EXCEPT ![i] = reader.now]
            /\ reader' = [reader EXCEPT !.same = TRUE]
            /\ last' = StoreEvent("setDependencies", i, StatusOf(i), "done", a)

\* ------------------------------------------------------------ construction

\* `new Class()` once more, for the class one DapiClientMixin call returned.
Construct ==
    /\ \E i \in Instances \ live :
         /\ live' = live \cup {i}
         /\ last' = Event("new", i, StatusOf(i), "instance", FALSE)
    /\ UNCHANGED <<config, closeCalls, closeBegun, stack, closeWait, healthWait>>
    /\ KeepStatus

\* -------------------------------------------------- building from a definition

\* DapiClientMixin(definition, SuperClass) is called.
Mixin ==
    /\ last.op = "definition"
    /\ last' = Event("mixin", 1, OPEN, MixinOutcome(variant, definition), FALSE)
    /\ UNCHANGED <<config, live, closeCalls, closeBegun, stack, closeWait, healthWait>>
    /\ KeepStatus

\* new Class() for the class the mixin returned.
ConstructFirst ==
    /\ last.op = "mixin"
    /\ last.ret = "class"
    /\ live = {}
    /\ LET outcome == ConstructorOutcome(variant, definition) IN
       /\ live' = IF outcome = "instance" THEN {1} ELSE live
       /\ last' = Event("new", 1, OPEN, outcome, FALSE)
    /\ UNCHANGED <<config, closeCalls, closeBegun, stack, closeWait, healthWait>>
    /\ KeepStatus

\* ------------------------------------------- two implementations in lockstep

\* One owner program run against two implementations at once: the closure
\* implementation (src/src/DapiClientMixin.ts), whose status is closureStatus,
\* and the implementation named by `variant` (part_002 or part_001), whose
\* status is StatusOf. Each call is made on both, the one user close function
\* and the one user health function behave the same way for both, and `ref`
\* holds what belongs to the closure implementation.

PairEvent(op, i, was, ret, user, ref) ==
    [op |-> op, inst |-> i, was |-> was, ret |-> ret, user |-> user, ref |-> ref]

PairFrame(i, was, ref) == [inst |-> i, was |-> was, ref |-> ref]

PairWaiting(kind, was, ref) == [kind |-> kind, was |-> was, ref |-> ref]

\* Assignment of both statuses: `ref` to the closure implementation's, `st` to
\* the other's.
SetStatusPair(i, ref, st) ==
    /\ closureStatus' = ref
    /\ fieldStatus' = IF variant = "class"
                      THEN [fieldStatus EXCEPT ![i] = st] ELSE fieldStatus
    /\ deps' = IF variant = "bundle"
               THEN [deps EXCEPT ![i] = Merge(deps[i], OnlyStatus(st))] ELSE deps
    /\ reader' = IF variant = "bundle" /\ st # StatusOf(i)
                 THEN Replaced(reader, i) ELSE reader

\* The status close() leaves behind when it returns or calls the user close
\* function, for a close() that found the status st.
StatusAfterCloseCall(st) ==
    IF CloseReturnsEarly(st) THEN st
    ELSE IF closeFn = "none" THEN StatusWhenClosed
    ELSE StatusWhileClosing

\* close(options) on both implementations.
PairClose(i) ==
    /\ i \in live
    /\ UNCHANGED <<config, live, healthWait, closeWait>>
    /\ LET ref == closureStatus
           st  == StatusOf(i)
           calls == closeFn # "none" /\ (~CloseReturnsEarly(ref) \/ ~CloseReturnsEarly(st))
       IN /\ SetStatusPair(i, StatusAfterCloseCall(ref), StatusAfterCloseCall(st))
          /\ closeBegun' = [closeBegun EXCEPT ![i] = @ \/ ~CloseReturnsEarly(st)]
          /\ IF calls
             THEN /\ closeCalls[i] < MaxCloseCalls
                  /\ closeCalls' = [closeCalls EXCEPT ![i] = @ + 1]
                  /\ stack' = <<PairFrame(i, st, ref)>> \o stack
                  /\ last' = PairEvent("closeFn", i, st,
                                       IF CloseReturnsEarly(st) THEN "done" ELSE "running",
                                       TRUE,
                                       IF CloseReturnsEarly(ref) THEN "done" ELSE "running")
             ELSE /\ UNCHANGED <<closeCalls, stack>>
                  /\ last' = PairEvent("close", i, st, "done", FALSE, "done")

\* The user close function returns a value that is no promise: the closure
\* implementation sets CLOSED and returns, the async one awaits the value.
PairUserCloseReturns ==
    /\ ~Idle
    /\ closeFn = "sync"
    /\ UNCHANGED <<config, live, healthWait, closeCalls, closeBegun>>
    /\ stack' = Tail(stack)
    /\ LET f == Head(stack) IN
       /\ SetStatusPair(f.inst,
                        IF CloseReturnsEarly(f.ref) THEN closureStatus ELSE StatusWhenClosed,
                        StatusOf(f.inst))
       /\ closeWait' = IF CloseReturnsEarly(f.was) THEN closeWait
                       ELSE [closeWait EXCEPT
                               ![f.inst] = Append(@, PairWaiting("micro", f.was, f.ref))]
       /\ last' = PairEvent("close", f.inst, f.was,
                            IF CloseReturnsEarly(f.was) THEN "done" ELSE "pending",
                            TRUE, "done")

\* The user close function throws: the closure implementation's close() throws,
\* the async one returns a rejected promise.
PairUserCloseThrows ==
    /\ ~Idle
    /\ closeFn = "sync"
    /\ UNCHANGED <<config, live, healthWait, closeCalls, closeBegun, closeWait>>
    /\ KeepStatus
    /\ stack' = Tail(stack)
    /\ LET f == Head(stack) IN
       last' = PairEvent("close", f.inst, f.was,
                         IF CloseReturnsEarly(f.was) THEN "done" ELSE "failed",
                         TRUE,
                         IF CloseReturnsEarly(f.ref) THEN "done" ELSE "failed")

\* The user close function returns a promise: both implementations return one
\* that settles after it.
PairUserCloseReturnsPromise ==
    /\ ~Idle
    /\ closeFn = "async"
    /\ UNCHANGED <<config, live, healthWait, closeCalls, closeBegun>>
    /\ KeepStatus
    /\ stack' = Tail(stack)
    /\ LET f == Head(stack) IN
       /\ closeWait' = [closeWait EXCEPT
                          ![f.inst] = Append(@, PairWaiting("user", f.was, f.ref))]
       /\ last' = PairEvent("close", f.inst, f.was,
                            IF CloseReturnsEarly(f.was) THEN "done" ELSE "pending",
                            TRUE,
                            IF CloseReturnsEarly(f.ref) THEN "done" ELSE "pending")

\* An awaited value arrives: the continuation after `await` of the async
\* implementation runs, and for the user's promise the `then` callback of the
\* closure implementation as well.
PairCloseResumes(i) ==
    /\ i \in live
    /\ Idle
    /\ UNCHANGED <<config, live, healthWait, closeCalls, closeBegun, stack>>
    /\ \E k \in 1..Len(closeWait[i]) :
         LET w == closeWait[i][k] IN
         /\ closeWait' = [closeWait EXCEPT ![i] = RemoveAt(@, k)]
         /\ SetStatusPair(i,
                          IF w.kind = "user" /\ ~CloseReturnsEarly(w.ref)
                          THEN StatusWhenClosed ELSE closureStatus,
                          IF CloseReturnsEarly(w.was) THEN StatusOf(i) ELSE StatusWhenClosed)
         /\ last' = PairEvent("closeSettled", i, w.was, "done", FALSE, "done")

\* The user's promise rejects: the rejection is the result of both close() calls.
PairCloseRejects(i) ==
    /\ i \in live
    /\ Idle
    /\ UNCHANGED <<config, live, healthWait, closeCalls, closeBegun, stack>>
    /\ \E k \in 1..Len(closeWait[i]) :
         /\ closeWait[i][k].kind = "user"
         /\ closeWait' = [closeWait EXCEPT ![i] = RemoveAt(@, k)]
         /\ KeepStatus
         /\ last' = PairEvent("closeSettled", i, closeWait[i][k].was, "failed", FALSE,
                              "failed")

\* isHealthy() calls the user health function when the status it reads is OPEN
\* and the definition has one.
HealthInvokes(st) == ~HealthReturnsFalse(st) /\ healthFn # "none"

\* What an isHealthy() call that read the status st yields, b being what the
\* user health function answers.
HealthAnswer(st, b) ==
    IF HealthReturnsFalse(st) THEN "false"
    ELSE IF healthFn = "none" THEN "true"
    ELSE b

\* isHealthy() on both implementations.
PairIsHealthy(i) ==
    /\ i \in live
    /\ UNCHANGED <<config, live, closeCalls, closeBegun, stack, closeWait>>
    /\ KeepStatus
    /\ LET ref == closureStatus
           st  == StatusOf(i)
       IN IF healthFn = "async" /\ (HealthInvokes(ref) \/ HealthInvokes(st))
          THEN /\ Len(healthWait[i]) < MaxInflight
               /\ healthWait' = [healthWait EXCEPT
                                   ![i] = Append(@, [was |-> st, ref |-> ref])]
               /\ last' = PairEvent("isHealthy", i, st,
                                    IF HealthInvokes(st) THEN "pending" ELSE "false",
                                    TRUE,
                                    IF HealthInvokes(ref) THEN "pending" ELSE "false")
          ELSE /\ UNCHANGED healthWait
               /\ \E b \in {"true", "false"} :
                    last' = PairEvent("isHealthy", i, st, HealthAnswer(st, b),
                                      HealthInvokes(st), HealthAnswer(ref, b))

\* The user's health promise settles with the same value for both.
PairHealthSettles(i) ==
    /\ i \in live
    /\ Idle
    /\ UNCHANGED <<config, live, closeCalls, closeBegun, stack, closeWait>>
    /\ KeepStatus
    /\ \E k \in 1..Len(healthWait[i]) :
         LET w == healthWait[i][k] IN
         /\ healthWait' = [healthWait EXCEPT ![i] = RemoveAt(@, k)]
         /\ \E b \in {"true", "false"} :
              last' = PairEvent("healthSettled", i, w.was, HealthAnswer(w.was, b),
                                FALSE, HealthAnswer(w.ref, b))

\* status() on both implementations.
PairStatus(i) ==
    /\ i \in live
    /\ UNCHANGED <<config, live, closeCalls, closeBegun, stack, closeWait, healthWait>>
    /\ KeepStatus
    /\ last' = PairEvent("status", i, StatusOf(i), StatusOf(i), FALSE, closureStatus)

\* ---------------------------------------------------------- specifications

UserClose ==
    \/ UserCloseReturns
    \/ UserCloseThrows
    \/ UserCloseReturnsPromise

Lifecycle(i) ==
    \/ Close(i)
    \/ CloseResumes(i)
    \/ CloseRejects(i)
    \/ IsHealthy(i)
    \/ HealthSettles(i)
    \/ Status(i)
    \/ Command(i)

Store(i) ==
    \/ SetDependencies(i)
    \/ UpdateDependencies(i)
    \/ SetClient(i)
    \/ GetClient(i)

\* Every operation of the facade, on one instance per class (what
\* createDapiClient builds).
Next == UserClose \/ \E i \in Instances : Lifecycle(i) \/ Store(i)

Spec == Init /\ [][Next]_vars

\* The lifecycle operations alone (close, isHealthy, status, commands), on the
\* instances of the class that one DapiClientMixin call returned.
NextLifecycle == Construct \/ UserClose \/ \E i \in Instances : Lifecycle(i)

SpecLifecycle == Init /\ [][NextLifecycle]_vars

\* The lifecycle operations with a user close function that completes and an
\* event loop that runs: a user close function that was called returns, throws
\* or returns a promise, and a promise that close() awaits settles, after
\* which the continuation of close() is run.
FairLifecycle ==
    /\ WF_vars(UserClose)
    /\ \A i \in Instances : WF_vars(CloseResumes(i) \/ CloseRejects(i))

SpecLifecycleFair == SpecLifecycle /\ FairLifecycle

\* The dependency store with a caller that keeps the bundles it is given.
References(i) ==
    \/ GetDependencies(i)
    \/ SetDependenciesHeld(i)

NextStore == \E i \in Instances : Store(i) \/ References(i)

\* How a close or isHealthy function completes plays no part in the store.
InitStore == Init /\ closeFn = "none" /\ healthFn = "none"

SpecStore == InitStore /\ [][NextStore]_vars

\* A definition whose fns dictionary has entries named close, isHealthy and
\* status, from the DapiClientMixin call on: the class, the first instance and
\* the lifecycle operations called on it. The two implementations that build
\* the dictionary themselves (DapiClientMixin.ts, part_002).
InitNamed ==
    /\ variant \in {"closure", "bundle"}
    /\ closeFn \in FnKinds
    /\ healthFn \in FnKinds
    /\ definition = [DefinitionOf(closeFn, healthFn) EXCEPT !.fns = FnsNamed]
    /\ live = {}
    /\ closureStatus = OPEN
    /\ fieldStatus = [i \in Instances |-> OPEN]
    /\ deps = [i \in Instances |-> InitialBundle(variant)]
    /\ closeCalls = [i \in Instances |-> 0]
    /\ closeBegun = [i \in Instances |-> FALSE]
    /\ stack = <<>>
    /\ closeWait = [i \in Instances |-> <<>>]
    /\ healthWait = [i \in Instances |-> <<>>]
    /\ reader = NoReference
    /\ last = Event("definition", 1, OPEN, "given", FALSE)

NextNamed == Mixin \/ ConstructFirst \/ UserClose \/ \E i \in Instances : Lifecycle(i)

SpecNamed == InitNamed /\ [][NextNamed]_vars

\* Construction: any definition a caller may write, the DapiClientMixin call and
\* the first `new`. How a close or isHealthy function completes plays no part
\* in it.
InitDefinition ==
    /\ variant \in Variants
    /\ definition \in Definitions
    /\ closeFn = (IF Callable(definition.close) THEN "sync" ELSE "none")
    /\ healthFn = (IF Callable(definition.isHealthy) THEN "sync" ELSE "none")
    /\ live = {}
    /\ closureStatus = OPEN
    /\ fieldStatus = [i \in Instances |-> OPEN]
    /\ deps = [i \in Instances |-> InitialBundle(variant)]
    /\ closeCalls = [i \in Instances |-> 0]
    /\ closeBegun = [i \in Instances |-> FALSE]
    /\ stack = <<>>
    /\ closeWait = [i \in Instances |-> <<>>]
    /\ healthWait = [i \in Instances |-> <<>>]
    /\ reader = NoReference
    /\ last = Event("definition", 1, OPEN, "given", FALSE)

NextDefinition == Mixin \/ ConstructFirst

SpecDefinition == InitDefinition /\ [][NextDefinition]_vars

\* The closure implementation and one of the two others, driven by the same
\* close / isHealthy / status calls on one instance.
InitVariants == Init /\ variant # "closure"

PairUserClose ==
    \/ PairUserCloseReturns
    \/ PairUserCloseThrows
    \/ PairUserCloseReturnsPromise

PairLifecycle(i) ==
    \/ PairClose(i)
    \/ PairCloseResumes(i)
    \/ PairCloseRejects(i)
    \/ PairIsHealthy(i)
    \/ PairHealthSettles(i)
    \/ PairStatus(i)

NextVariants == PairUserClose \/ \E i \in Instances : PairLifecycle(i)

SpecVariants == InitVariants /\ [][NextVariants]_vars


\* ================================================================== claims

CloseEnded == last.op \in {"close", "closeSettled"}
HealthResult == last.op \in {"isHealthy", "healthSettled"}

\* A close() of instance i that waits on the promise of the user close function.
ClosePending(i) == \E k \in 1..Len(closeWait[i]) : closeWait[i][k].kind = "user"

\* C1: under any sequence of close() calls, following one another or made while
\* an earlier one is still pending, the user close function of an instance is
\* invoked at most once, and a close() call that does not find the status OPEN
\* returns without invoking it.
C1_CloseInvokedAtMostOnce ==
    /\ \A i \in live : closeCalls[i] <= 1
    /\ (last.op = "close" /\ last.was # OPEN) => (last.ret = "done" /\ ~last.user)

C1_Witness ==
    /\ last.op = "close" /\ last.was = CLOSING /\ last.ret = "done"
    /\ ClosePending(last.inst)
    /\ closeCalls[last.inst] = 1

\* C2 (as stated, for an instance on which close has taken effect): whenever a
\* close() call has completed without error, status() is CLOSED and an
\* isHealthy() call returns false without asking the override.
C2_AnyCompletedCloseIsClosed ==
    (CloseEnded /\ last.ret = "done" /\ closeBegun[last.inst])
        => /\ StatusOf(last.inst) = CLOSED
           /\ HealthReturnsFalse(StatusOf(last.inst))

\* C2 (amended): when the close() call that found the status OPEN completes
\* without error, status() is CLOSED and an isHealthy() call returns false
\* without asking the override.
C2_OpeningCloseEndsClosed ==
    (CloseEnded /\ last.ret = "done" /\ last.was = OPEN)
        => /\ StatusOf(last.inst) = CLOSED
           /\ HealthReturnsFalse(StatusOf(last.inst))

C2_Witness ==
    /\ last.op = "closeSettled" /\ last.ret = "done" /\ last.was = OPEN
    /\ healthFn # "none"
    /\ closeFn = "async"

\* C3: while a close() waits on the promise of the user close function,
\* status() is CLOSING and every isHealthy() call returns false.
C3_ClosingWhilePending ==
    \A i \in live :
        ClosePending(i)
            => /\ StatusOf(i) = CLOSING
               /\ (last.op = "isHealthy" /\ last.inst = i) => last.ret = "false"

C3_Witness ==
    /\ last.op = "isHealthy" /\ ClosePending(last.inst)
    /\ healthFn # "none"

\* C4: when the user close function fails, by throwing or by a promise that
\* rejects, close() fails with it and status() is CLOSING.
C4_FailedCloseStaysClosing ==
    (CloseEnded /\ last.ret = "failed")
        => /\ StatusOf(last.inst) = CLOSING
           /\ last.was = OPEN

C4_Witness == last.op = "closeSettled" /\ last.ret = "failed"

\* C5: an isHealthy() call made while the status is CLOSING or CLOSED returns
\* false and does not invoke the user health function.
C5_NoHealthCheckOnceClosing ==
    (last.op = "isHealthy" /\ last.was \in {CLOSING, CLOSED})
        => (last.ret = "false" /\ ~last.user)

C5_Witness ==
    /\ last.op = "isHealthy" /\ last.was = CLOSING
    /\ healthFn # "none"
    /\ last.ret = "false"

\* C6 (as stated): once close() has begun on an instance and its status is no
\* longer OPEN, no isHealthy() result it delivers is true, the result of a check
\* started earlier included.
C6_NoTrueOnceCloseBegun ==
    (HealthResult /\ closeBegun[last.inst] /\ StatusOf(last.inst) # OPEN)
        => last.ret # "true"

\* C6 (amended): an isHealthy() call made while status() is not OPEN yields
\* false; a true result always belongs to a call that found the status OPEN.
C6_TrueOnlyIfCalledOpen ==
    HealthResult => /\ last.ret = "true" => last.was = OPEN
                    /\ last.was # OPEN => last.ret = "false"

C6_Witness ==
    /\ last.op = "healthSettled" /\ last.ret = "true"
    /\ StatusOf(last.inst) = CLOSING
    /\ closeBegun[last.inst]

\* C7: a newly constructed instance has status() OPEN, and isHealthy() true
\* when the definition has no health function.
C7_NewInstanceIsOpen ==
    last.op = "new"
        => /\ StatusOf(last.inst) = OPEN
           /\ healthFn = "none" => ~HealthReturnsFalse(StatusOf(last.inst))

\* OPEN < CLOSING < CLOSED; a value that is no status has no place in the order.
Rank(st) == CASE st = OPEN -> 0 [] st = CLOSING -> 1 [] st = CLOSED -> 2 [] OTHER -> 3

\* C8: whatever operation is performed, status() never moves backward in the
\* order OPEN < CLOSING < CLOSED, and once CLOSED it stays CLOSED.
C8_StatusMonotonic ==
    [][\A i \in live :
         /\ Rank(StatusOf(i)') >= Rank(StatusOf(i))
         /\ StatusOf(i) = CLOSED => StatusOf(i)' = CLOSED]_vars

\* C9 (as stated): the status changes only from OPEN to CLOSING and from CLOSING
\* to CLOSED.
C9_OnlyTwoTransitions ==
    [][\A i \in live :
         StatusOf(i)' # StatusOf(i)
            => <<StatusOf(i), StatusOf(i)'>> \in {<<OPEN, CLOSING>>, <<CLOSING, CLOSED>>}]_vars

\* C9 (amended): under the lifecycle operations the status changes only from
\* OPEN to CLOSING and from CLOSING to CLOSED, and from OPEN straight to CLOSED
\* when the definition has no close function.
C9_TransitionsOfClose ==
    [][\A i \in live :
         StatusOf(i)' # StatusOf(i)
            => \/ <<StatusOf(i), StatusOf(i)'>> \in {<<OPEN, CLOSING>>, <<CLOSING, CLOSED>>}
               \/ closeFn = "none" /\ <<StatusOf(i), StatusOf(i)'>> = <<OPEN, CLOSED>>]_vars

C9_Witness ==
    /\ last.op = "close" /\ last.was = OPEN /\ closeFn = "none"
    /\ StatusOf(last.inst) = CLOSED

\* C10: only close changes what status() returns, and status() returns one of
\* OPEN, CLOSING, CLOSED.
C10_OnlyCloseChangesStatus ==
    [][\A i \in live :
         /\ last'.op \notin {"close", "closeFn", "closeSettled"}
               => StatusOf(i)' = StatusOf(i)
         /\ StatusOf(i)' \in ClientStatus]_vars

\* The results one operation gave on the two implementations run in lockstep.
PairResult == last.op \in {"close", "closeFn", "closeSettled", "isHealthy",
                           "healthSettled", "status"}

\* A close() of the async implementation that has awaited the value of a
\* synchronous user close function and has not gone on yet.
AwaitingValue(i) == \E k \in 1..Len(closeWait[i]) : closeWait[i][k].kind = "micro"

C12_CommandsRunWhateverTheStatus ==
    (last.op = "command" /\ last.was \in {CLOSING, CLOSED})
        => /\ last.user
           /\ last.ret = last.answer
           /\ last.bundle = deps[last.inst]

C12_Witness ==
    /\ last.op = "command" /\ last.was = CLOSING /\ last.user
    /\ ClosePending(last.inst)

C14_UserCloseGetsCurrentBundle ==
    last.op = "closeFn"
        => /\ last.user
           /\ last.was = OPEN
           /\ closeCalls[last.inst] = 1
           /\ last.args.delay = last.options.delay
           /\ last.bundle = deps[last.inst]

\* C15: an isHealthy() call that finds the status OPEN calls the user health
\* function, with the current bundle, and gives back what it answers; when the
\* definition has none it gives true.
C15_OpenHealthCheckAsksTheUser ==
    (last.op = "isHealthy" /\ last.was = OPEN)
        => IF healthFn = "none"
           THEN last.ret = "true" /\ ~last.user
           ELSE /\ last.user
                /\ last.bundle = deps[last.inst]
                /\ last.args = <<>>
                /\ last.ret = last.answer

C15_Witness ==
    /\ last.op = "isHealthy" /\ last.was = OPEN
    /\ healthFn = "sync"
    /\ last.ret = "false"
    /\ last.bundle.client = "c2"

\* C16: the dependency bundle of an instance never holds one of the keys close,
\* isHealthy, status.
C16_NoReservedKeysInBundle ==
    \A i \in live : deps[i].status = Undef /\ deps[i].fns = Undef

\* The definition's bundle has a key close, isHealthy or status.
HasReservedKey ==
    /\ definition.dependencies.present
    /\ \/ definition.dependencies.close # "undefined"
       \/ definition.dependencies.isHealthy # "undefined"
       \/ definition.dependencies.status # "undefined"

\* C17: when the bundle of the definition has one of the keys close, isHealthy,
\* status, DapiClientMixin returns no class and no instance comes to be.
C17_ReservedKeysFailConstruction ==
    HasReservedKey
        => /\ last.op = "mixin" => last.ret # "class"
           /\ live = {}

\* The definition has no bundle, or the bundle has no truthy client.
HasNoClient ==
    \/ ~definition.dependencies.present
    \/ definition.dependencies.client \in {"undefined", "null"}

\* C18: when the definition has no bundle or the bundle no client, no instance
\* comes to be.
C18_NoClientFailsConstruction ==
    HasNoClient
        => /\ last.op = "new" => last.ret # "instance"
           /\ live = {}

\* C19: when definition.fns is missing, is no dictionary or has a value that is
\* no function, DapiClientMixin throws and returns no class.
C19_BadFnsFailConstruction ==
    (last.op = "mixin" /\ definition.fns # "dict") => last.ret # "class"

\* C20: when definition.close or definition.isHealthy is given and is no
\* function, whatever value it is, DapiClientMixin throws and returns no class.
C20_BadOverrideFailsConstruction ==
    (/\ last.op = "mixin"
     /\ \/ definition.close \notin {"undefined", "function"}
        \/ definition.isHealthy \notin {"undefined", "function"})
        => last.ret # "class"

\* The step just taken was a store call with an argument the store must refuse:
\* setDependencies with no value or with a bundle without client, setClient
\* with no client.
RefusedArgument(e) ==
    \/ /\ e.op = "setDependencies"
       /\ ~e.arg.defined \/ e.arg.value.client = Undef
    \/ /\ e.op = "setClient"
       /\ e.arg = Undef

C22_SetClientKeepsEarlierBundle ==
    (last.op = "setClient" /\ last.ret = "done" /\ reader.inst = last.inst)
        => /\ reader.now.client = reader.taken.client
           /\ deps[last.inst].client = last.arg

\* The step taken sets the client alone: setClient(c), or updateDependencies
\* with a partial bundle that has the client key and no other.
SetsClientAlone(e) ==
    \/ e.op = "setClient" /\ e.ret = "done"
    \/ /\ e.op = "updateDependencies"
       /\ e.arg = [client |-> e.arg.client, opts |-> NoKey, status |-> NoKey,
                   fns |-> NoKey]
       /\ e.arg.client # NoKey

ClientSet(e) == IF e.op = "setClient" THEN e.arg ELSE e.arg.client

\* C23: after setClient(c) or updateDependencies({client: c}) has returned, the
\* client of the bundle is c and every other key of the bundle has the value it
\* had before the call.
C23_OnlyTheClientChanges ==
    [][SetsClientAlone(last')
         => /\ deps'[last'.inst].client = ClientSet(last')
            /\ \A k \in DOMAIN deps[last'.inst] \ {"client"} :
                 deps'[last'.inst][k] = deps[last'.inst][k]]_vars

C23_Witness ==
    /\ last.op = "setClient" /\ last.ret = "done" /\ last.arg = "c2"
    /\ deps[last.inst].client = "c2"
    /\ deps[last.inst].opts = "baz"
    /\ deps[last.inst].fns = Bound

\* C24: after setDependencies(d) has returned, the bundle of the instance is d,
\* with no key of the bundle it replaces, and getClient() returns the client
\* key of the bundle of the instance.
C24_BundleReplacedWholesale ==
    [][/\ (last'.op = "setDependencies" /\ last'.ret = "done")
            => deps'[last'.inst] = last'.arg.value
       /\ last'.op = "getClient"
            => last'.ret = deps'[last'.inst].client]_vars

C24_Witness ==
    /\ last.op = "getClient" /\ last.ret = "c2"
    /\ variant = "class"
    /\ deps[last.inst] = Bundle("c2", "baz", Undef, Undef)

\* The user close function called by close() of instance i has not returned yet.
InUserClose(i) == \E k \in 1..Len(stack) : stack[k].inst = i

\* C25: when the user close function is invoked the status is CLOSING already,
\* and from then until the promise of close() settles, inside the user close
\* function and after close() has returned, status() returns CLOSING and
\* isHealthy() false.
C25_ClosingBeforeUserClose ==
    /\ last.op = "closeFn" => StatusOf(last.inst) = CLOSING
    /\ \A i \in live :
         (InUserClose(i) \/ closeWait[i] # <<>>)
            => /\ StatusOf(i) = CLOSING
               /\ (last.op = "status" /\ last.inst = i) => last.ret = CLOSING
               /\ (last.op = "isHealthy" /\ last.inst = i) => last.ret = "false"

C25_Witness ==
    /\ last.op = "status" /\ last.ret = CLOSING
    /\ stack # <<>>
    /\ Head(stack).inst = last.inst
    /\ closeWait[last.inst] = <<>>

\* C26: a close() call that finds the status CLOSING or CLOSED returns at once
\* and changes nothing: the status and the bundle stay as they are, the user
\* close function is not called, and a close that is pending stays pending.
C26_LateCloseChangesNothing ==
    [][(last'.op \in {"close", "closeFn"} /\ last'.was # OPEN)
         => /\ last'.op = "close" /\ last'.ret = "done" /\ ~last'.user
            /\ deps' = deps
            /\ \A i \in live : StatusOf(i)' = StatusOf(i)
            /\ closeCalls' = closeCalls
            /\ closeWait' = closeWait
            /\ stack' = stack]_vars

C26_Witness ==
    /\ last.op = "close" /\ last.was = CLOSING /\ last.ret = "done"
    /\ AwaitingValue(last.inst)
    /\ StatusOf(last.inst) = CLOSING

\* The step just taken is the failure of the close of instance i: the user
\* close function threw or its promise rejected.
CloseFailed(i) == CloseEnded /\ last.inst = i /\ last.ret = "failed"

\* C27: once close() has found an instance OPEN and called the user close
\* function, whatever calls are made in the meantime, the status becomes CLOSED
\* unless the user close function fails, and it is not CLOSED as long as the
\* user close function has not completed.
C27_CloseRunsToCompletion ==
    /\ [](\A i \in live :
            (closeBegun[i] /\ StatusOf(i) = CLOSED)
                => (~InUserClose(i) /\ closeWait[i] = <<>>))
    /\ \A i \in Instances :
         (InUserClose(i) \/ closeWait[i] # <<>>)
             ~> (StatusOf(i) = CLOSED \/ CloseFailed(i))

C27_Witness ==
    /\ last.op = "closeSettled" /\ last.ret = "done"
    /\ closeFn = "async"
    /\ StatusOf(last.inst) = CLOSED
    /\ healthWait[last.inst] # <<>>

\* The close of instance i has failed: it began, it is no longer running or
\* awaited, and the status is CLOSING.
StuckClosing(i) ==
    /\ closeBegun[i]
    /\ StatusOf(i) = CLOSING
    /\ ~InUserClose(i)
    /\ closeWait[i] = <<>>

C29_CloseKeepsSynchronicity ==
    (/\ last.op = "close" /\ last.was = OPEN
     /\ closeFn \in {"none", "sync"}
     /\ last.ret # "failed")
        => /\ last.ret = "done"
           /\ StatusOf(last.inst) = CLOSED

\* C30: close() of one instance, and its completion, leave the status of every
\* other instance of the class as it is, so that the other instance still
\* answers OPEN and healthy and its own close() still calls its user close
\* function.
C30_StatusIsPerInstance ==
    [][\A i, j \in live :
         (i # j /\ last'.inst = i
          /\ last'.op \in {"close", "closeFn", "closeSettled"})
            => StatusOf(j)' = StatusOf(j)]_vars

\* C31: a close() call made on an instance from inside its own user close
\* function returns at once: the user close function is not called again, the
\* outer close goes on as before, and when it completes without error the
\* status is CLOSED.
C31_NestedCloseIsNoOp ==
    /\ [][\A i \in live :
            (/\ last'.inst = i
             /\ last'.op \in {"close", "closeFn"}
             /\ Len(stack') >= Len(stack)
             /\ InUserClose(i))
                => /\ last'.op = "close" /\ last'.ret = "done" /\ ~last'.user
                   /\ closeCalls' = closeCalls
                   /\ stack' = stack
                   /\ closeWait' = closeWait
                   /\ StatusOf(i)' = CLOSING]_vars
    /\ [](\A i \in live : closeCalls[i] <= 1)
    /\ []((CloseEnded /\ last.was = OPEN /\ last.ret = "done")
            => StatusOf(last.inst) = CLOSED)

C31_Witness ==
    /\ last.op = "close" /\ last.was = CLOSING /\ last.ret = "done"
    /\ ~last.user
    /\ InUserClose(last.inst)
    /\ closeCalls[last.inst] = 1

=============================================================================
